---- MODULE Spec2Model ----
(***************************************************************************)
(* Model of iftop_rs' traffic-aggregation core.                            *)
(*                                                                         *)
(*   src/src/constants.rs  TICK_RATE_MS, HISTORY_WINDOW_SECS, MAX_SAMPLES  *)
(*   src/src/app.rs        SharedStats, IpHistory, App::new, App::on_tick  *)
(*   src/src/network.rs    is_rfc1918_private, should_track_ip and the     *)
(*                         capture thread of start_capture_thread          *)
(*                                                                         *)
(* Two threads share Arc<Mutex<SharedStats>>: the capture thread records   *)
(* one packet per critical section, the UI thread runs App::on_tick once   *)
(* per tick.  Each critical section is split into the steps of its code so *)
(* that the mutex, and not the granularity of the model, is what makes     *)
(* them atomic.                                                            *)
(*                                                                         *)
(* Rates are f64 in the source.  Every rate the code computes is a         *)
(* quotient of two integers, so a rate is modelled exactly as a reduced    *)
(* fraction <<n, d>>; within the bounds of the model all operands are far  *)
(* below 2^53, where distinct fractions of this size have distinct f64     *)
(* values and f64 comparison agrees with the comparison of the fractions.  *)
(* u64 counters cannot wrap within the bounds and are modelled as naturals.*)
(* Local::now() reads the variable clock, which moves on at every read.    *)
(***************************************************************************)
EXTENDS Integers, Sequences, FiniteSets, TLC

\* ------------------------------------------------------------------ bounds

\* constants.rs:1
TICK_RATE_MS == 500

\* constants.rs:2 sets 60 (a window of 120 samples); the model scales the
\* window down so that a full window, and a sample leaving it, are reached.
HISTORY_WINDOW_SECS == 1

\* constants.rs:3
MAX_SAMPLES == (HISTORY_WINDOW_SECS * 1000) \div TICK_RATE_MS

\* Packets the capture thread records in one run.
MaxPackets == 2

\* Ticks the UI thread runs in one run.
MaxTicks == 3

\* Updates applied to the single tracker of SpecTracker.
MaxUpdates == 5

\* ------------------------------------------------------------------ inputs

\* The interface's own address (network.rs: get_local_ip), a second private
\* address and a public one.
local_ip == <<192, 168, 1, 5>>

Addrs == {local_ip, <<10, 0, 0, 7>>, <<8, 8, 8, 8>>}

\* packet.header.len as u64 (network.rs:69).  The code does not relate it to
\* the captured bytes, so 0 is an admissible value.
PacketLens == {0, 1, 1500}

\* Option<Ipv4Network>
None == [some |-> FALSE]

Some(addr, prefix) == [some |-> TRUE, addr |-> addr, prefix |-> prefix]

\* No filter, or 10.0.0.0/8.
FilterChoices == {None, Some(<<10, 0, 0, 0>>, 8)}

\* Addresses classified in SpecClassify: the first and last address of each
\* private range, their neighbours outside it, and others.
ClassifyAddrs ==
    {<<0, 0, 0, 0>>, <<8, 8, 8, 8>>, <<9, 255, 255, 255>>, <<10, 0, 0, 0>>,
     <<10, 0, 0, 7>>, <<10, 255, 255, 255>>, <<11, 0, 0, 0>>,
     <<172, 15, 255, 255>>, <<172, 16, 0, 0>>, <<172, 31, 255, 255>>,
     <<172, 32, 0, 0>>, <<192, 167, 255, 255>>, <<192, 168, 0, 0>>,
     <<192, 168, 1, 5>>, <<192, 168, 255, 255>>, <<192, 169, 0, 0>>,
     <<255, 255, 255, 255>>}

\* Filters of SpecClassify: none, whole-octet and cut-octet prefixes, a
\* network given with host bits set, /0 and /32.
ClassifyFilters ==
    {None, Some(<<10, 0, 0, 0>>, 8), Some(<<172, 16, 0, 0>>, 12),
     Some(<<192, 168, 1, 5>>, 23), Some(<<8, 8, 8, 8>>, 32),
     Some(<<0, 0, 0, 0>>, 0), Some(<<172, 0, 0, 0>>, 8)}

\* Addresses of the packets of SpecMain: the interface's own address and
\* two addresses of 192.168.5.0/24, the network main.rs tracks.
MainAddrs == {local_ip, <<192, 168, 5, 2>>, <<192, 168, 5, 3>>}

\* Packet lengths of SpecMain: an empty payload and a full frame.
MainPacketLens == {0, 1500}

\* Ticks of one run of SpecMain: a window that decays to zero and one tick
\* more.
MaxMainTicks == 4

\* Calls of ArpSpoofer::start in one run of SpecSpoof.
MaxStarts == 4

\* Per-tick byte counts fed to the tracker of SpecTracker.
SampleBytes == {0, 300, 1000}

\* Capacities of the tracker of SpecTracker: the model's MAX_SAMPLES, the
\* capacity 3 of spec scenario B and the 120 of constants.rs.
TrackerCapacities == {MAX_SAMPLES, 3, 120}

\* --------------------------------------------------------------- variables

VARIABLES
    filter_cidr,      \* start_capture_thread's filter_cidr argument
    stats,            \* SharedStats behind the mutex
    mutex,            \* "free", or the thread holding the MutexGuard
    cap_pc,           \* capture thread: position in the loop body
    packet,           \* capture thread: len, src, dst of the current packet
    tick_pc,          \* UI thread: position in App::on_tick
    rx_history,       \* App.rx_history
    tx_history,       \* App.tx_history
    total_rx_bytes,   \* App.total_rx_bytes
    total_tx_bytes,   \* App.total_tx_bytes
    peak_rx_record,   \* App.peak_rx_record
    peak_tx_record,   \* App.peak_tx_record
    ip_histories,     \* App.ip_histories
    top_talkers,      \* App.top_talkers
    clock,            \* the value the next Local::now() returns
    n_packets,        \* packets taken from the capture so far
    n_ticks,          \* ticks started so far
    recorded,         \* history: sum of the lengths of the packets recorded
    at_lock,          \* history: SharedStats when on_tick took the lock
    used,             \* history: the SharedStats values on_tick read
    visited,          \* history: each tracker on_tick updated, after update
    drained,          \* history: the rx and tx delta of every tick so far
    peak_rx_rate,     \* main.rs App.peak_rx_rate
    peak_tx_rate,     \* main.rs App.peak_tx_rate
    ip_stats,         \* main.rs App.ip_stats
    dns_cache,        \* main.rs App.dns_cache, behind its own mutex
    dns_query_sent,   \* main.rs App.dns_query_sent
    main_top_talkers, \* main.rs App.top_talkers
    main_all_ips,     \* main.rs on_tick: the local all_ips
    lookups,          \* main.rs: addresses whose lookup thread is running
    issued,           \* history: the address of every lookup thread spawned
    evicted,          \* history: addresses removed from ip_stats so far
    resolved,         \* history: what lookup_addr returned, per address
    process,          \* spoof.rs ArpSpoofer.process: <<>> is None, <<i>> child i
    children,         \* the arpspoof processes spawned so far
    dropped,          \* the ArpSpoofer went out of scope
    last_op,          \* history: the last ArpSpoofer operation that returned
    n_starts,         \* calls of start so far
    dropped_ips,      \* history: addresses on_tick of app.rs removed from
                      \* ip_histories and has not kept since
    tr_cap,           \* SpecTracker: capacity of the tracker
    tr_h,             \* SpecTracker: the tracker (IpHistory)
    tr_inputs,        \* SpecTracker: history of the bytes passed to update
    tr_avg,           \* SpecTracker: value the last update returned
    cl_ip,            \* SpecClassify: the address classified
    cl_filter,        \* SpecClassify: the filter_cidr in force
    cl_result         \* SpecClassify: <<>>, or <<what should_track_ip returned>>

appVars == <<rx_history, tx_history, total_rx_bytes, total_tx_bytes,
             peak_rx_record, peak_tx_record, ip_histories, top_talkers>>

captureVars == <<cap_pc, packet, n_packets, recorded>>

trackerVars == <<tr_cap, tr_h, tr_inputs, tr_avg>>

classifyVars == <<cl_ip, cl_filter, cl_result>>

mainVars == <<peak_rx_rate, peak_tx_rate, ip_stats, dns_cache, dns_query_sent,
              main_top_talkers, main_all_ips, lookups, issued, evicted,
              resolved>>

spoofVars == <<process, children, dropped, last_op, n_starts>>

vars == <<filter_cidr, stats, mutex, cap_pc, packet, tick_pc, rx_history,
          tx_history, total_rx_bytes, total_tx_bytes, peak_rx_record,
          peak_tx_record, ip_histories, top_talkers, clock, n_packets,
          n_ticks, recorded, at_lock, used, visited, tr_cap, tr_h,
          tr_inputs, tr_avg, cl_ip, cl_filter, cl_result, drained,
          peak_rx_rate, peak_tx_rate, ip_stats, dns_cache, dns_query_sent,
          main_top_talkers, main_all_ips, lookups, issued, evicted,
          resolved, process, children, dropped, last_op, n_starts, dropped_ips>>

\* ----------------------------------------------------------------- helpers

RECURSIVE GCD(_, _)
GCD(a, b) == IF b = 0 THEN a ELSE GCD(b, a % b)

\* The fraction n/d (n >= 0, d > 0), reduced.
Rat(n, d) == LET g == GCD(n, d) IN <<n \div g, d \div g>>

Zero == <<0, 1>>

\* f64 `>` and `>=` on two rates.
RatGT(a, b) == a[1] * b[2] > b[1] * a[2]

RatGE(a, b) == a[1] * b[2] >= b[1] * a[2]

RECURSIVE SumSeq(_)
SumSeq(s) == IF s = <<>> THEN 0 ELSE Head(s) + SumSeq(Tail(s))

EmptyMap == [x \in {} |-> 0]

\* Mutant of MapPut: a key that is present keeps its old value.
MapPutIfAbsent(m, k, v) ==
    [x \in (DOMAIN m) \cup {k} |-> IF x \in DOMAIN m THEN m[x] ELSE v]

MapPut(m, k, v) == [x \in (DOMAIN m) \cup {k} |-> IF x = k THEN v ELSE m[x]]

\* Mutant of MapRemove: the entry stays.
MapKeep(m, k) == m

MapRemove(m, k) == [x \in (DOMAIN m) \ {k} |-> m[x]]

\* HashMap iteration order: any order of the keys.
Orders(S) ==
    {f \in [1..Cardinality(S) -> S] : \A x \in S : \E i \in DOMAIN f : f[i] = x}

\* vec![0.0; MAX_SAMPLES]
ZeroVec(n) == [i \in 1..n |-> 0]

\* ------------------------------------------------- network.rs: classifier

\* Mutant of is_rfc1918_private: the upper bound of 172.16.0.0/12 is lost.
PrivateNoUpperBound(ip) ==
    \/ (ip[1] = 192 /\ ip[2] = 168)
    \/ ip[1] = 10
    \/ (ip[1] = 172 /\ ip[2] >= 16)

\* network.rs:29-34
is_rfc1918_private(ip) ==
    \/ (ip[1] = 192 /\ ip[2] = 168)
    \/ ip[1] = 10
    \/ (ip[1] = 172 /\ ip[2] >= 16 /\ ip[2] <= 31)

\* Ipv4Network::contains (network.rs:46): (ip & mask) == (addr & mask), that
\* is, the two agree on the first `prefix` bits: on each whole octet the mask
\* covers and on the masked bits of the octet it cuts.
NetworkContains(network, ip) ==
    LET whole == network.prefix \div 8
        bits  == network.prefix % 8
    IN  /\ \A i \in 1..whole : ip[i] = network.addr[i]
        /\ bits > 0 =>
               ip[whole + 1] \div 2 ^ (8 - bits)
                   = network.addr[whole + 1] \div 2 ^ (8 - bits)

\* Mutant of should_track_ip: every address is tracked.
TrackEvery(ip, filter) == TRUE

\* network.rs:43-49
should_track_ip(ip, filter) ==
    IF filter.some THEN NetworkContains(filter, ip)
    ELSE is_rfc1918_private(ip)

\* Mutant of IsTx: the two branches of network.rs:76-80 swapped.
IsTxInverted(src) == src # local_ip

\* network.rs:76: the packet counts as transmitted.
IsTx(src) == src = local_ip

\* ------------------------------------------------------ app.rs: IpHistory

\* app.rs:26-33
IpHistory_new(now) ==
    [samples |-> <<>>, total_sum |-> 0, peak_rate |-> Zero, peak_time |-> now]

\* Mutant of instant_rate: the bytes of one tick over the whole window.
InstantOverWindow(bytes) == Rat(bytes * 1000, MAX_SAMPLES * TICK_RATE_MS)

\* app.rs:36 (and 104-105): bytes * (1000.0 / TICK_RATE_MS)
instant_rate(bytes) == Rat(bytes * 1000, TICK_RATE_MS)

\* Mutant of RecordPeak: the record follows the latest rate.
RecordLatest(h, rate, now) ==
    [h EXCEPT !.peak_rate = rate, !.peak_time = now]

\* Mutant of RecordPeak: `>=` for `>`, a tie renews the record.
RecordPeakOnTie(h, rate, now) ==
    IF RatGE(rate, h.peak_rate)
    THEN [h EXCEPT !.peak_rate = rate, !.peak_time = now]
    ELSE h

\* app.rs:38-41
RecordPeak(h, rate, now) ==
    IF RatGT(rate, h.peak_rate)
    THEN [h EXCEPT !.peak_rate = rate, !.peak_time = now]
    ELSE h

\* Mutant of ExceedsCapacity: `>=` for `>`.
ReachesCapacity(len, cap) == len >= cap

\* app.rs:45
ExceedsCapacity(len, cap) == len > cap

\* Mutant of PopFront: pop_back.
PopBack(samples) == SubSeq(samples, 1, Len(samples) - 1)

\* app.rs:46: pop_front
PopFront(samples) == Tail(samples)

\* Mutant of SubRemoved: the removed sample is not subtracted.
KeepRemoved(total_sum, removed) == total_sum

\* app.rs:47
SubRemoved(total_sum, removed) == total_sum - removed

\* app.rs:43-49
PushSample(h, bytes, cap) ==
    LET pushed == Append(h.samples, bytes)
        sum    == h.total_sum + bytes
    IN  IF ExceedsCapacity(Len(pushed), cap)
        THEN [h EXCEPT !.samples = PopFront(pushed),
                       !.total_sum = SubRemoved(sum, Head(pushed))]
        ELSE [h EXCEPT !.samples = pushed, !.total_sum = sum]

\* Mutant of average_rate: the configured window for the samples held.
AverageOverWindow(total_sum, len) ==
    Rat(total_sum * 1000, MAX_SAMPLES * TICK_RATE_MS)

\* app.rs:51-56: total_sum / (len * TICK_RATE_MS / 1000), 0 for no samples
average_rate(total_sum, len) ==
    IF len * TICK_RATE_MS = 0 THEN Zero
    ELSE Rat(total_sum * 1000, len * TICK_RATE_MS)

\* 0.0 / 0.0 in f64: not a number.
NaN == <<0, 0>>

\* Mutant of update: the average is taken over the queue as it was before
\* the push, with no test for an empty window.
UpdateAverageFirst(h, bytes, now, cap) ==
    LET h2 == PushSample(RecordPeak(h, instant_rate(bytes), now), bytes, cap)
    IN  [h |-> h2,
         avg |-> IF Len(h.samples) = 0 THEN NaN
                 ELSE average_rate(h.total_sum, Len(h.samples))]

\* app.rs:35-57, with MAX_SAMPLES as the parameter cap: the tracker after the
\* call and the value returned.
update(h, bytes, now, cap) ==
    LET h2 == PushSample(RecordPeak(h, instant_rate(bytes), now), bytes, cap)
    IN  [h |-> h2, avg |-> average_rate(h2.total_sum, Len(h2.samples))]

\* ------------------------------------------------------ app.rs: on_tick

\* Mutant of Retained: the running sum alone decides.
RetainedBySum(h) == h.total_sum > 0

\* app.rs:129
Retained(h) == h.total_sum > 0 \/ RatGT(h.peak_rate, Zero)

\* Mutant of ShiftIn: push without remove(0).
PushOnly(history, delta) == Append(history, delta)

\* app.rs:96-97, 98-99: remove(0), push
ShiftIn(history, delta) == Append(Tail(history), delta)

\* Mutant of NewPeakRecord: `>=` for `>`, a tie renews the record.
NewPeakRecordOnTie(record, rate, now) ==
    IF RatGE(rate, record[1]) THEN <<rate, now>> ELSE record

\* app.rs:107-109, 110-112
NewPeakRecord(record, rate, now) ==
    IF RatGT(rate, record[1]) THEN <<rate, now>> ELSE record

\* app.rs:123-134: the loop over all_ips in the order `order`; c is the clock.
RECURSIVE VisitAll(_, _, _, _, _, _)
VisitAll(order, delta, hist, snap, seen, c) ==
    IF order = <<>> THEN [hist |-> hist, snap |-> snap, seen |-> seen, c |-> c]
    ELSE
        LET ip       == Head(order)
            bytes_in == IF ip \in DOMAIN delta THEN delta[ip] ELSE 0
            history  == IF ip \in DOMAIN hist THEN hist[ip]
                        ELSE IpHistory_new(c)
            r        == update(history, bytes_in, c + 1, MAX_SAMPLES)
            entry    == [ip |-> ip, avg |-> r.avg,
                         peak_rate |-> r.h.peak_rate,
                         peak_time |-> r.h.peak_time]
        IN  IF Retained(r.h)
            THEN VisitAll(Tail(order), delta, MapPut(hist, ip, r.h),
                          Append(snap, entry), MapPut(seen, ip, r.h), c + 2)
            ELSE VisitAll(Tail(order), delta,
                          MapRemove(MapPut(hist, ip, r.h), ip),
                          snap, MapPut(seen, ip, r.h), c + 2)

\* The comparator of app.rs:136: b.1.partial_cmp(&a.1), "a sorts before b".
Before(a, b) == RatGT(a.avg, b.avg)

\* Stable insertion of x into the sorted s: after every element that does not
\* sort after it.
RECURSIVE InsertSorted(_, _)
InsertSorted(s, x) ==
    IF s = <<>> THEN <<x>>
    ELSE IF Before(x, Head(s)) THEN <<x>> \o s
    ELSE <<Head(s)>> \o InsertSorted(Tail(s), x)

RECURSIVE SortFrom(_, _)
SortFrom(acc, s) ==
    IF s = <<>> THEN acc ELSE SortFrom(InsertSorted(acc, Head(s)), Tail(s))

\* Mutant of sort_by: the snapshot is published unsorted.
Unsorted(s) == s

\* app.rs:136: sort_by is a stable sort.
sort_by(s) == SortFrom(<<>>, s)

\* Mutant of ClearedStats: tx_delta is not reset.
ClearedButTx(s) == [s EXCEPT !.traffic_delta = EmptyMap, !.rx_delta = 0]

\* app.rs:139-141
ClearedStats(s) ==
    [s EXCEPT !.traffic_delta = EmptyMap, !.rx_delta = 0, !.tx_delta = 0]

\* Mutant of LockAvailable: the lock excludes nobody.
LockIgnored(m) == TRUE

\* Mutex::lock (app.rs:93, network.rs:73) returns once no thread holds it.
LockAvailable(m) == m = "free"

EmptyStats == [traffic_delta |-> EmptyMap, rx_delta |-> 0, tx_delta |-> 0]

NoPacket == [len |-> 0, src |-> local_ip, dst |-> local_ip]

\* -------------------------------------------------------------------- Init

\* main: SharedStats::default, App::new (app.rs:77-90), no packet read yet.
InitApp ==
    /\ stats = EmptyStats
    /\ mutex = "free"
    /\ cap_pc = "next_packet"
    /\ packet = NoPacket
    /\ tick_pc = "idle"
    /\ rx_history = ZeroVec(MAX_SAMPLES)
    /\ tx_history = ZeroVec(MAX_SAMPLES)
    /\ total_rx_bytes = 0
    /\ total_tx_bytes = 0
    /\ peak_rx_record = <<Zero, 0>>
    /\ peak_tx_record = <<Zero, 0>>
    /\ ip_histories = EmptyMap
    /\ top_talkers = <<>>
    /\ clock = 1
    /\ n_packets = 0
    /\ n_ticks = 0
    /\ recorded = 0
    /\ at_lock = EmptyStats
    /\ used = EmptyStats
    /\ visited = EmptyMap
    /\ drained = <<>>
    /\ peak_rx_rate = 0
    /\ peak_tx_rate = 0
    /\ ip_stats = EmptyMap
    /\ dns_cache = EmptyMap
    /\ dns_query_sent = <<>>
    /\ main_top_talkers = <<>>
    /\ main_all_ips = <<>>
    /\ lookups = {}
    /\ issued = <<>>
    /\ evicted = {}
    /\ resolved = EmptyMap
    /\ process = <<>>
    /\ children = <<>>
    /\ dropped = FALSE
    /\ last_op = "new"
    /\ n_starts = 0
    /\ dropped_ips = {}

InitClassify(ips, filters) ==
    /\ cl_ip \in ips
    /\ cl_filter \in filters
    /\ cl_result = <<>>

InitTracker(caps) ==
    /\ tr_cap \in caps
    /\ tr_h = IpHistory_new(0)
    /\ tr_inputs = <<>>
    /\ tr_avg = Zero

Init ==
    /\ filter_cidr \in FilterChoices
    /\ InitApp
    /\ InitTracker({MAX_SAMPLES})
    /\ InitClassify({local_ip}, {None})

\* -------------------------------------- network.rs: the capture thread

\* network.rs:65-71: next_packet yields an IPv4 packet.
CaptureNext ==
    /\ cap_pc = "next_packet"
    /\ n_packets < MaxPackets
    /\ \E len \in PacketLens, src \in Addrs :
           \E dst \in Addrs \ {src} :
               packet' = [len |-> len, src |-> src, dst |-> dst]
    /\ n_packets' = n_packets + 1
    /\ cap_pc' = "lock"
    /\ UNCHANGED <<filter_cidr, stats, mutex, tick_pc, appVars, clock, n_ticks,
                   recorded, at_lock, used, visited, trackerVars,
                   classifyVars, drained, mainVars, spoofVars, dropped_ips>>

\* network.rs:73: stats.lock().unwrap()
CaptureLock ==
    /\ cap_pc = "lock"
    /\ LockAvailable(mutex)
    /\ mutex' = "capture"
    /\ cap_pc' = "count"
    /\ recorded' = recorded + packet.len
    /\ UNCHANGED <<filter_cidr, stats, packet, tick_pc, appVars, clock,
                   n_packets, n_ticks, at_lock, used, visited, trackerVars,
                   classifyVars, drained, mainVars, spoofVars, dropped_ips>>

\* network.rs:76-80
CaptureCount ==
    /\ cap_pc = "count"
    /\ stats' = IF IsTx(packet.src)
                THEN [stats EXCEPT !.tx_delta = @ + packet.len]
                ELSE [stats EXCEPT !.rx_delta = @ + packet.len]
    /\ cap_pc' = "src"
    /\ UNCHANGED <<filter_cidr, mutex, packet, tick_pc, appVars, clock,
                   n_packets, n_ticks, recorded, at_lock, used, visited,
                   trackerVars,
                   classifyVars, drained, mainVars, spoofVars, dropped_ips>>

\* Mutant of AddDelta: insert(ip, len) for entry(ip).or_insert(0) += len.
SetDelta(delta, ip, len) == MapPut(delta, ip, len)

\* network.rs:83, 86: *s.traffic_delta.entry(ip).or_insert(0) += len
AddDelta(delta, ip, len) ==
    MapPut(delta, ip, (IF ip \in DOMAIN delta THEN delta[ip] ELSE 0) + len)

\* network.rs:82-84
CaptureSrc ==
    /\ cap_pc = "src"
    /\ stats' = IF should_track_ip(packet.src, filter_cidr)
                THEN [stats EXCEPT !.traffic_delta =
                                       AddDelta(@, packet.src, packet.len)]
                ELSE stats
    /\ cap_pc' = "dst"
    /\ UNCHANGED <<filter_cidr, mutex, packet, tick_pc, appVars, clock,
                   n_packets, n_ticks, recorded, at_lock, used, visited,
                   trackerVars,
                   classifyVars, drained, mainVars, spoofVars, dropped_ips>>

\* network.rs:85-88: the destination's delta, then the guard is dropped.
CaptureDst ==
    /\ cap_pc = "dst"
    /\ stats' = IF should_track_ip(packet.dst, filter_cidr)
                THEN [stats EXCEPT !.traffic_delta =
                                       AddDelta(@, packet.dst, packet.len)]
                ELSE stats
    /\ mutex' = "free"
    /\ cap_pc' = "next_packet"
    /\ packet' = NoPacket
    /\ UNCHANGED <<filter_cidr, tick_pc, appVars, clock, n_packets,
                   n_ticks, recorded, at_lock, used, visited, trackerVars,
                   classifyVars, drained, mainVars, spoofVars, dropped_ips>>

\* --------------------------------------------- app.rs: App::on_tick

\* app.rs:93: shared_stats.lock().unwrap()
TickLock ==
    /\ tick_pc = "idle"
    /\ n_ticks < MaxTicks
    /\ LockAvailable(mutex)
    /\ mutex' = "tick"
    /\ tick_pc' = "global"
    /\ n_ticks' = n_ticks + 1
    /\ at_lock' = stats
    /\ UNCHANGED <<filter_cidr, stats, captureVars, appVars, clock, used,
                   visited, trackerVars,
                   classifyVars, drained, mainVars, spoofVars, dropped_ips>>

\* app.rs:95-112: trend buffers, lifetime totals, global peak records.
TickGlobal ==
    /\ tick_pc = "global"
    /\ rx_history' = ShiftIn(rx_history, stats.rx_delta)
    /\ tx_history' = ShiftIn(tx_history, stats.tx_delta)
    /\ total_rx_bytes' = total_rx_bytes + stats.rx_delta
    /\ total_tx_bytes' = total_tx_bytes + stats.tx_delta
    /\ peak_rx_record' =
           NewPeakRecord(peak_rx_record, instant_rate(stats.rx_delta), clock)
    /\ peak_tx_record' =
           NewPeakRecord(peak_tx_record, instant_rate(stats.tx_delta),
                         clock + 1)
    /\ clock' = clock + 2
    /\ used' = [used EXCEPT !.rx_delta = stats.rx_delta,
                            !.tx_delta = stats.tx_delta]
    /\ drained' = Append(drained, [rx |-> stats.rx_delta,
                                   tx |-> stats.tx_delta])
    /\ tick_pc' = "per_ip"
    /\ UNCHANGED <<filter_cidr, stats, mutex, captureVars, ip_histories,
                   top_talkers, n_ticks, at_lock, visited, trackerVars,
                   classifyVars, mainVars, spoofVars, dropped_ips>>

\* Mutant of FreshKeys: every key of traffic_delta is pushed to all_ips.
EveryDeltaKey(delta, hist) == DOMAIN delta

\* app.rs:116-120: the keys of traffic_delta that have no tracker yet.
FreshKeys(delta, hist) == (DOMAIN delta) \ (DOMAIN hist)

\* app.rs:115-137: all_ips, the per-IP loop, the sort, the new top_talkers.
TickPerIp ==
    /\ tick_pc = "per_ip"
    /\ \E known \in Orders(DOMAIN ip_histories),
          fresh \in Orders(FreshKeys(stats.traffic_delta, ip_histories)) :
           LET all_ips == known \o fresh
               r == VisitAll(all_ips, stats.traffic_delta, ip_histories,
                             <<>>, EmptyMap, clock)
           IN  /\ ip_histories' = r.hist
               /\ top_talkers' = sort_by(r.snap)
               /\ visited' = r.seen
               /\ clock' = r.c
    /\ used' = [used EXCEPT !.traffic_delta = stats.traffic_delta]
    /\ tick_pc' = "clear"
    /\ UNCHANGED <<filter_cidr, stats, mutex, captureVars, rx_history,
                   tx_history, total_rx_bytes, total_tx_bytes, peak_rx_record,
                   peak_tx_record, n_ticks, at_lock, trackerVars,
                   classifyVars, drained, mainVars, spoofVars, dropped_ips>>

\* app.rs:139-141
TickClear ==
    /\ tick_pc = "clear"
    /\ stats' = ClearedStats(stats)
    /\ tick_pc' = "return"
    /\ UNCHANGED <<filter_cidr, mutex, captureVars, appVars, clock, n_ticks,
                   at_lock, used, visited, trackerVars,
                   classifyVars, drained, mainVars, spoofVars, dropped_ips>>

\* app.rs:142: on_tick returns and the guard is dropped.
TickReturn ==
    /\ tick_pc = "return"
    /\ mutex' = "free"
    /\ tick_pc' = "idle"
    /\ at_lock' = EmptyStats
    /\ used' = EmptyStats
    /\ visited' = EmptyMap
    /\ dropped_ips' = (dropped_ips \ DOMAIN ip_histories)
                       \cup {ip \in DOMAIN visited : ~Retained(visited[ip])}
    /\ UNCHANGED <<filter_cidr, stats, captureVars, appVars, clock, n_ticks,
                   trackerVars,
                   classifyVars, drained, mainVars, spoofVars>>

Next ==
    \/ CaptureNext
    \/ CaptureLock
    \/ CaptureCount
    \/ CaptureSrc
    \/ CaptureDst
    \/ TickLock
    \/ TickGlobal
    \/ TickPerIp
    \/ TickClear
    \/ TickReturn

Spec == Init /\ [][Next]_vars

\* ------------------------------------------------ main.rs: the monolith

\* main.rs:400-403
is_lan_ip(ip) == ip[1] = 192 /\ ip[2] = 168 /\ ip[3] = 5

\* main.rs:65-72; <<>> is the peak_time "-".
IpMetrics_new ==
    [samples |-> <<>>, total_sum |-> 0, peak_bps |-> Zero, peak_time |-> <<>>]

\* main.rs:74-92: the queue and the average as in app.rs, the peak taken
\* from the average.
IpMetrics_update(h, bytes, now, cap) ==
    LET h1          == PushSample(h, bytes, cap)
        current_bps == average_rate(h1.total_sum, Len(h1.samples))
        h2          == IF RatGT(current_bps, h1.peak_bps)
                       THEN [h1 EXCEPT !.peak_bps = current_bps,
                                       !.peak_time = <<now>>]
                       ELSE h1
    IN  [h |-> h2, avg |-> current_bps]

\* main.rs:242-245: record, one critical section of the capture thread
\* (main.rs:233-250).
MainRecorded(s, len, src, dst) ==
    LET s1 == IF src = local_ip THEN [s EXCEPT !.tx_delta = @ + len]
              ELSE [s EXCEPT !.rx_delta = @ + len]
        s2 == IF is_lan_ip(src)
              THEN [s1 EXCEPT !.traffic_delta = AddDelta(@, src, len)]
              ELSE s1
    IN  IF is_lan_ip(dst)
        THEN [s2 EXCEPT !.traffic_delta = AddDelta(@, dst, len)]
        ELSE s2

MainRecord ==
    /\ n_packets < MaxPackets
    /\ LockAvailable(mutex)
    /\ \E len \in MainPacketLens, src \in MainAddrs :
           \E dst \in MainAddrs \ {src} :
               stats' = MainRecorded(stats, len, src, dst)
    /\ n_packets' = n_packets + 1
    /\ UNCHANGED <<filter_cidr, mutex, cap_pc, packet, recorded, tick_pc,
                   appVars,
                   clock, n_ticks, at_lock, used, visited, trackerVars,
                   classifyVars, drained, mainVars, spoofVars, dropped_ips>>

Range(s) == {s[i] : i \in DOMAIN s}

\* Mutant of QueryNeeded: the marker is not consulted.
QueryAlways(sent, ip) == TRUE

\* main.rs:158: no lookup was issued for ip yet.
QueryNeeded(sent, ip) == ip \notin Range(sent)

\* main.rs:156-171: the addresses of `order`, in order, that get a lookup
\* thread, given the marker `sent`.
RECURSIVE Triggered(_, _)
Triggered(order, sent) ==
    IF order = <<>> THEN <<>>
    ELSE IF QueryNeeded(sent, Head(order))
         THEN <<Head(order)>>
                  \o Triggered(Tail(order), Append(sent, Head(order)))
         ELSE Triggered(Tail(order), sent)

\* main.rs:145-146
NewPeakDelta(peak, delta) == IF delta > peak THEN delta ELSE peak

\* main.rs:135-171: the lock, the global chart, all_ips and the DNS
\* trigger.
MainTickSpawn ==
    /\ tick_pc = "idle"
    /\ n_ticks < MaxMainTicks
    /\ LockAvailable(mutex)
    /\ mutex' = "tick"
    /\ n_ticks' = n_ticks + 1
    /\ rx_history' = ShiftIn(rx_history, stats.rx_delta)
    /\ tx_history' = ShiftIn(tx_history, stats.tx_delta)
    /\ total_rx_bytes' = total_rx_bytes + stats.rx_delta
    /\ total_tx_bytes' = total_tx_bytes + stats.tx_delta
    /\ peak_rx_rate' = NewPeakDelta(peak_rx_rate, stats.rx_delta)
    /\ peak_tx_rate' = NewPeakDelta(peak_tx_rate, stats.tx_delta)
    /\ \E known \in Orders(DOMAIN ip_stats),
          fresh \in Orders((DOMAIN stats.traffic_delta) \ (DOMAIN ip_stats)) :
           LET ips     == known \o fresh
               spawned == Triggered(ips, dns_query_sent)
           IN  /\ main_all_ips' = ips
               /\ dns_query_sent' = dns_query_sent \o spawned
               /\ lookups' = lookups \cup Range(spawned)
               /\ issued' = issued \o spawned
    /\ tick_pc' = "snapshot"
    /\ UNCHANGED <<filter_cidr, stats, captureVars, peak_rx_record,
                   peak_tx_record, ip_histories, top_talkers, clock, at_lock,
                   used, visited, trackerVars, classifyVars, drained,
                   ip_stats, dns_cache, main_top_talkers, evicted, resolved,
                   spoofVars, dropped_ips>>

\* main.rs:166: what lookup_addr can return for an address: Ok with a
\* name, or Err with an error.
LookupResults == {[ok |-> TRUE, value |-> "host.lan"],
                  [ok |-> FALSE, value |-> "lookup failed"]}

\* main.rs:166: Ipv4Addr::to_string, the dotted text of the address.
to_string(ip) ==
    ToString(ip[1]) \o "." \o ToString(ip[2]) \o "." \o ToString(ip[3])
        \o "." \o ToString(ip[4])

\* Mutant of unwrap_or_else: the error is passed on as the name.
UnwrapOrError(result, ip) == result.value

\* main.rs:166: unwrap_or_else(|_| target_ip.to_string())
unwrap_or_else(result, ip) ==
    IF result.ok THEN result.value ELSE to_string(ip)

\* main.rs:164-169: the body of a lookup thread: lookup_addr returns, the
\* name or the literal address is inserted into the cache under its lock,
\* and the thread ends.
LookupInsert ==
    /\ \E ip \in lookups, result \in LookupResults :
           /\ dns_cache' = MapPut(dns_cache, ip, unwrap_or_else(result, ip))
           /\ resolved' = MapPut(resolved, ip, result)
           /\ lookups' = lookups \ {ip}
    /\ UNCHANGED <<filter_cidr, stats, mutex, captureVars, tick_pc, appVars,
                   clock, n_ticks, at_lock, used, visited, trackerVars,
                   classifyVars, drained, peak_rx_rate, peak_tx_rate,
                   ip_stats, dns_query_sent, main_top_talkers, main_all_ips,
                   issued, evicted, spoofVars, dropped_ips>>

\* main.rs:182
MainRetained(h) == h.total_sum > 0

\* main.rs:177-194: the loop over all_ips; c is the clock.
RECURSIVE MainVisitAll(_, _, _, _, _, _, _)
MainVisitAll(order, delta, metrics, cache, snap, gone, c) ==
    IF order = <<>>
    THEN [metrics |-> metrics, snap |-> snap, gone |-> gone, c |-> c]
    ELSE
        LET ip       == Head(order)
            bytes_in == IF ip \in DOMAIN delta THEN delta[ip] ELSE 0
            before   == IF ip \in DOMAIN metrics THEN metrics[ip]
                        ELSE IpMetrics_new
            r        == IpMetrics_update(before, bytes_in, c, MAX_SAMPLES)
            hostname == IF ip \in DOMAIN cache THEN cache[ip]
                        ELSE "Resolving..."
            entry    == [ip |-> ip, avg |-> r.avg, hostname |-> hostname,
                         peak_bps |-> r.h.peak_bps,
                         peak_time |-> r.h.peak_time]
        IN  IF MainRetained(r.h)
            THEN MainVisitAll(Tail(order), delta, MapPut(metrics, ip, r.h),
                              cache, Append(snap, entry), gone, c + 1)
            ELSE MainVisitAll(Tail(order), delta,
                              MapRemove(MapPut(metrics, ip, r.h), ip),
                              cache, snap, gone \cup {ip}, c + 1)

\* main.rs:173-204: the snapshot under the cache lock, the sort, the reset
\* of SharedStats; on_tick returns and both guards are dropped.
MainTickSnapshot ==
    /\ tick_pc = "snapshot"
    /\ LET r == MainVisitAll(main_all_ips, stats.traffic_delta, ip_stats,
                             dns_cache, <<>>, {}, clock)
       IN  /\ ip_stats' = r.metrics
           /\ main_top_talkers' = sort_by(r.snap)
           /\ evicted' = evicted \cup r.gone
           /\ clock' = r.c
    /\ stats' = ClearedStats(stats)
    /\ main_all_ips' = <<>>
    /\ mutex' = "free"
    /\ tick_pc' = "idle"
    /\ UNCHANGED <<filter_cidr, captureVars, appVars, n_ticks, at_lock, used,
                   visited, trackerVars, classifyVars, drained, peak_rx_rate,
                   peak_tx_rate, dns_cache, dns_query_sent, lookups, issued,
                   resolved, spoofVars, dropped_ips>>

NextMain ==
    \/ MainRecord
    \/ MainTickSpawn
    \/ LookupInsert
    \/ MainTickSnapshot

\* main.rs has no --filter option: should_track_ip is not consulted.
InitMain == Init /\ filter_cidr = None

SpecMain == InitMain /\ [][NextMain]_vars

\* ------------------------------------------------ spoof.rs: ArpSpoofer

\* spoof.rs:17-23: a child process as Command::spawn returns it.
NewChild == [running |-> TRUE, killed |-> FALSE, waited |-> FALSE]

\* spoof.rs:31-32: child.kill() then child.wait(), both results ignored.
KillAndWait(c) == [running |-> FALSE, killed |-> TRUE, waited |-> TRUE]

\* spoof.rs:30-34: stop takes the handle out of process and ends that
\* child; with no handle it does nothing.
Stopped(cs, proc) ==
    IF proc = <<>> THEN cs
    ELSE [cs EXCEPT ![proc[1]] = KillAndWait(@)]

\* spoof.rs:14-27: start. spawn()? returns early on an error; otherwise the
\* new handle is stored over whatever process held. Dropping the old
\* std::process::Child neither kills nor waits.
SpooferStart ==
    /\ ~dropped
    /\ n_starts < MaxStarts
    /\ n_starts' = n_starts + 1
    /\ \/ /\ children' = Append(children, NewChild)
          /\ process' = <<Len(children) + 1>>
          /\ last_op' = "start"
       \/ /\ last_op' = "start_err"
          /\ UNCHANGED <<process, children>>
    /\ UNCHANGED <<filter_cidr, stats, mutex, captureVars, tick_pc, appVars,
                   clock, n_ticks, at_lock, used, visited, trackerVars,
                   classifyVars, drained, mainVars, dropped, dropped_ips>>

\* spoof.rs:29-35
SpooferStop ==
    /\ ~dropped
    /\ children' = Stopped(children, process)
    /\ process' = <<>>
    /\ last_op' = "stop"
    /\ UNCHANGED <<filter_cidr, stats, mutex, captureVars, tick_pc, appVars,
                   clock, n_ticks, at_lock, used, visited, trackerVars,
                   classifyVars, drained, mainVars, dropped, n_starts,
                   dropped_ips>>

\* spoof.rs:38-42: Drop calls stop.
SpooferDrop ==
    /\ ~dropped
    /\ children' = Stopped(children, process)
    /\ process' = <<>>
    /\ dropped' = TRUE
    /\ last_op' = "drop"
    /\ UNCHANGED <<filter_cidr, stats, mutex, captureVars, tick_pc, appVars,
                   clock, n_ticks, at_lock, used, visited, trackerVars,
                   classifyVars, drained, mainVars, n_starts, dropped_ips>>

\* spoof.rs:17-23: arpspoof ends by itself; it stays unreaped until waited.
ChildExit ==
    /\ \E i \in DOMAIN children :
           /\ children[i].running
           /\ children' = [children EXCEPT ![i].running = FALSE]
    /\ UNCHANGED <<filter_cidr, stats, mutex, captureVars, tick_pc, appVars,
                   clock, n_ticks, at_lock, used, visited, trackerVars,
                   classifyVars, drained, mainVars, process, dropped,
                   last_op, n_starts, dropped_ips>>

NextSpoof ==
    \/ SpooferStart
    \/ SpooferStop
    \/ SpooferDrop
    \/ ChildExit

\* spoof.rs:9-11: ArpSpoofer::new, process is None.
InitSpoof == Init /\ filter_cidr = None /\ process = <<>>

SpecSpoof == InitSpoof /\ [][NextSpoof]_vars

\* ------------------------------- a capture thread that dies in record

\* The capture thread panics inside its critical section (network.rs:73-88;
\* the `+=` of lines 77, 79, 83 and 86 panic on overflow in a build with
\* overflow checks): the thread ends, and the guard dropped by the unwinding
\* poisons the mutex.
CapturePanic ==
    /\ cap_pc \in {"count", "src", "dst"}
    /\ cap_pc' = "panicked"
    /\ mutex' = "poisoned"
    /\ UNCHANGED <<filter_cidr, stats, packet, n_packets, recorded, tick_pc,
                   appVars, clock, n_ticks, at_lock, used, visited,
                   trackerVars, classifyVars, drained, mainVars, spoofVars,
                   dropped_ips>>

\* Mutant of Unwrap: the poison is ignored (PoisonError::into_inner).
UnwrapIntoInner(m) == "guard"

\* app.rs:93: what lock().unwrap() does once the mutex is handed over: lock
\* returns Err(PoisonError) for a poisoned mutex and unwrap panics.
Unwrap(m) == IF m = "poisoned" THEN "panic" ELSE "guard"

\* app.rs:93 on a poisoned mutex: on_tick panics before its first statement
\* and the panic unwinds through the tick loop (ui.rs:223).
TickLockPoisoned ==
    /\ tick_pc = "idle"
    /\ n_ticks < MaxTicks
    /\ mutex = "poisoned"
    /\ IF Unwrap(mutex) = "panic"
       THEN /\ tick_pc' = "panicked"
            /\ UNCHANGED <<mutex, n_ticks, at_lock>>
       ELSE /\ tick_pc' = "global"
            /\ mutex' = "tick"
            /\ n_ticks' = n_ticks + 1
            /\ at_lock' = stats
    /\ UNCHANGED <<filter_cidr, stats, captureVars, appVars, clock, used,
                   visited, trackerVars, classifyVars, drained, mainVars,
                   spoofVars, dropped_ips>>

NextPoison ==
    \/ Next
    \/ CapturePanic
    \/ TickLockPoisoned

SpecPoison == Init /\ [][NextPoison]_vars

\* ------------------------------------- a single tracker, fed directly

InitT ==
    /\ filter_cidr = None
    /\ InitApp
    /\ InitTracker(TrackerCapacities)
    /\ InitClassify({local_ip}, {None})

\* One call of IpHistory::update (app.rs:35-57) on the tracker.
TrackerUpdate ==
    /\ Len(tr_inputs) < MaxUpdates
    /\ \E bytes \in SampleBytes :
           LET r == update(tr_h, bytes, Len(tr_inputs) + 1, tr_cap)
           IN  /\ tr_h' = r.h
               /\ tr_avg' = r.avg
               /\ tr_inputs' = Append(tr_inputs, bytes)
    /\ UNCHANGED <<filter_cidr, stats, mutex, captureVars, tick_pc, appVars,
                   clock, n_ticks, at_lock, used, visited, tr_cap,
                   classifyVars, drained, mainVars, spoofVars, dropped_ips>>

NextTracker == TrackerUpdate

SpecTracker == InitT /\ [][NextTracker]_vars

\* ------------------------------------- the classifier, called directly

InitC ==
    /\ filter_cidr = None
    /\ InitApp
    /\ InitTracker({MAX_SAMPLES})
    /\ InitClassify(ClassifyAddrs, ClassifyFilters)

\* One call of should_track_ip (network.rs:43-49).
Classify ==
    /\ cl_result = <<>>
    /\ cl_result' = <<should_track_ip(cl_ip, cl_filter)>>
    /\ UNCHANGED <<filter_cidr, stats, mutex, captureVars, tick_pc, appVars,
                   clock, n_ticks, at_lock, used, visited, trackerVars,
                   cl_ip, cl_filter, drained, mainVars, spoofVars, dropped_ips>>

NextClassify == Classify

SpecClassify == InitC /\ [][NextClassify]_vars

\* ------------------------------------------------------------------ claims

Min(a, b) == IF a < b THEN a ELSE b

\* C1: every recorded packet is counted in exactly one drain.  Whenever no
\* thread holds the lock, the lifetime totals plus the pending rx and tx
\* deltas equal the sum of the lengths of the packets recorded so far; and
\* while on_tick holds the lock the capture thread is never inside a record
\* (its counter incremented, its per-endpoint deltas not yet applied).
C1_LinearizableDrain ==
    /\ mutex = "free" =>
           total_rx_bytes + total_tx_bytes + stats.rx_delta + stats.tx_delta
               = recorded
    /\ tick_pc # "idle" => cap_pc \in {"next_packet", "lock"}

\* A drain has taken some packets, others are pending, the lock is free.
C1_Witness ==
    /\ mutex = "free"
    /\ total_rx_bytes + total_tx_bytes > 0
    /\ stats.rx_delta + stats.tx_delta > 0

\* C2: every tracker of the tracked-endpoint map holds at most MAX_SAMPLES
\* samples and its total_sum is the sum of the samples it holds.
C2_TrackerInvariant ==
    \A ip \in DOMAIN ip_histories :
        /\ Len(ip_histories[ip].samples) <= MAX_SAMPLES
        /\ ip_histories[ip].total_sum = SumSeq(ip_histories[ip].samples)

\* A full tracker whose peak sample has left the window (its peak rate is
\* above the rate of every sample it holds) while traffic remains in it.
C2_Witness ==
    \E ip \in DOMAIN ip_histories :
        LET h == ip_histories[ip]
        IN  /\ Len(h.samples) = MAX_SAMPLES
            /\ h.total_sum > 0
            /\ \A i \in DOMAIN h.samples :
                   RatGT(h.peak_rate, instant_rate(h.samples[i]))

\* C3 as claimed: every tracker that remains in the tracked-endpoint map has
\* a nonzero running sum.
C3_Claimed_NonzeroSumKept ==
    \A ip \in DOMAIN ip_histories : ip_histories[ip].total_sum > 0

\* C4: at the end of on_tick's loop, a visited endpoint whose tracker has
\* total_sum = 0 and peak_rate = 0 after update is not in the map; every
\* other visited endpoint is in the map with that tracker and is listed in
\* the snapshot.
C4_EvictIffBothZero ==
    tick_pc \in {"clear", "return"} =>
        \A ip \in DOMAIN visited :
            LET h == visited[ip]
            IN  IF h.total_sum = 0 /\ h.peak_rate = Zero
                THEN ip \notin DOMAIN ip_histories
                ELSE /\ ip \in DOMAIN ip_histories
                     /\ ip_histories[ip] = h
                     /\ \E i \in DOMAIN top_talkers : top_talkers[i].ip = ip

\* One tick removes a tracker and keeps another whose window holds no
\* traffic any more.
C4_Witness ==
    /\ tick_pc = "clear"
    /\ \E ip \in DOMAIN visited : ip \notin DOMAIN ip_histories
    /\ \E ip \in DOMAIN visited :
           /\ ip \in DOMAIN ip_histories
           /\ visited[ip].total_sum = 0

\* C5: the average update returns is total_sum over (samples held * tick
\* interval), the samples held counted as they are during warm-up; with the
\* 500 ms tick four updates of 1000 bytes return 2000 B/s and a following
\* update of 0 returns 1600 B/s.
C5_AverageOverHeldSamples ==
    /\ tr_inputs # <<>> =>
           tr_avg[1] * Len(tr_h.samples) * TICK_RATE_MS
               = tr_h.total_sum * 1000 * tr_avg[2]
    /\ (tr_cap >= 5 /\ tr_inputs = <<1000, 1000, 1000, 1000>>) =>
           tr_avg = <<2000, 1>>
    /\ (tr_cap >= 5 /\ tr_inputs = <<1000, 1000, 1000, 1000, 0>>) =>
           tr_avg = <<1600, 1>>

\* The fifth update of the example, during warm-up.
C5_Witness ==
    /\ tr_cap >= 5
    /\ tr_inputs = <<1000, 1000, 1000, 1000, 0>>
    /\ Len(tr_h.samples) = 5

\* C6: the published top_talkers is in descending order of average rate.
C6_SnapshotSorted ==
    \A i \in 1..(Len(top_talkers) - 1) :
        RatGE(top_talkers[i].avg, top_talkers[i + 1].avg)

\* A snapshot of two endpoints with different averages.
C6_Witness ==
    /\ Len(top_talkers) >= 2
    /\ RatGT(top_talkers[1].avg, top_talkers[2].avg)

\* C7: after n updates the queue holds the most recent min(n, capacity)
\* inputs, oldest first, and total_sum is their sum.
C7_SlidingWindow ==
    LET n    == Len(tr_inputs)
        k    == Min(n, tr_cap)
        last == SubSeq(tr_inputs, n - k + 1, n)
    IN  /\ tr_h.samples = last
        /\ tr_h.total_sum = SumSeq(last)

\* More updates than the capacity, the first of them nonzero and gone.
C7_Witness ==
    /\ Len(tr_inputs) > tr_cap + 1
    /\ tr_inputs[1] > 0
    /\ tr_inputs[2] # tr_inputs[Len(tr_inputs)]
    /\ tr_h.total_sum > 0

ScenarioB == tr_cap = 3 /\ tr_inputs = <<300, 300, 300, 0>>

\* C8 as claimed: capacity 3, updates of 300, 300, 300, 0: the running sum
\* is 300 and the average 300 / (3 * tick).
C8_Claimed_ScenarioB ==
    ScenarioB =>
        /\ tr_h.total_sum = 300
        /\ tr_avg = Rat(300 * 1000, 3 * TICK_RATE_MS)

\* C8 as amended: capacity 3, updates of 300, 300, 300, 0: one 300 has left
\* the window, the running sum is 600 and the average 600 / (3 * tick).
C8_ScenarioB ==
    ScenarioB =>
        /\ tr_h.samples = <<300, 300, 0>>
        /\ tr_h.total_sum = 600
        /\ tr_avg = Rat(600 * 1000, 3 * TICK_RATE_MS)

C8_Witness == ScenarioB /\ Len(tr_h.samples) = 3

\* C9: when on_tick returns, traffic_delta is empty and rx_delta and
\* tx_delta are 0, and the values the tick read are those the accumulator
\* held when the tick took the lock.
C9_DrainResets ==
    tick_pc = "return" =>
        /\ stats = EmptyStats
        /\ used = at_lock

\* A tick that drained rx bytes, tx bytes and a per-endpoint delta.
C9_Witness ==
    /\ tick_pc = "return"
    /\ at_lock.rx_delta > 0
    /\ at_lock.tx_delta > 0
    /\ at_lock.traffic_delta # EmptyMap

\* C10: record adds the packet's length to tx_delta when the source is the
\* local address and to rx_delta otherwise, whatever the destination, and
\* leaves the other counter as it was.
C10_DirectionCounted ==
    [][(cap_pc = "count" /\ cap_pc' = "src") =>
           IF packet.src = local_ip
           THEN /\ stats'.tx_delta = stats.tx_delta + packet.len
                /\ stats'.rx_delta = stats.rx_delta
           ELSE /\ stats'.rx_delta = stats.rx_delta + packet.len
                /\ stats'.tx_delta = stats.tx_delta]_vars

\* The example: source 192.168.1.5 = local, length 1500.
C10_Witness ==
    /\ cap_pc = "src"
    /\ packet.src = <<192, 168, 1, 5>>
    /\ packet.dst = <<8, 8, 8, 8>>
    /\ packet.len = 1500
    /\ stats.tx_delta = 1500
    /\ stats.rx_delta = 0

\* The per-tick delta of ip in a traffic_delta map, 0 for no entry.
DeltaOf(delta, ip) == IF ip \in DOMAIN delta THEN delta[ip] ELSE 0

\* The step of record that handles address a (the source, then the
\* destination): a tracked a gains the packet's length, every other delta
\* and the key set are as before; an untracked a changes nothing.
RecordedFor(a) ==
    IF should_track_ip(a, filter_cidr)
    THEN /\ DOMAIN stats'.traffic_delta = (DOMAIN stats.traffic_delta) \cup {a}
         /\ stats'.traffic_delta[a]
                = DeltaOf(stats.traffic_delta, a) + packet.len
         /\ \A ip \in (DOMAIN stats.traffic_delta) \ {a} :
                stats'.traffic_delta[ip] = stats.traffic_delta[ip]
    ELSE stats'.traffic_delta = stats.traffic_delta

\* C11: record adds the packet's length to the delta of the source if the
\* source is tracked and, independently, to the delta of the destination if
\* the destination is tracked; no other delta changes and an untracked
\* address gets no entry in traffic_delta.
C11_DeltaRecorded ==
    [][/\ (cap_pc = "src" /\ cap_pc' = "dst") => RecordedFor(packet.src)
       /\ (cap_pc = "dst" /\ cap_pc' = "next_packet") =>
              RecordedFor(packet.dst)
       /\ \A ip \in DOMAIN stats'.traffic_delta :
              should_track_ip(ip, filter_cidr)]_vars

\* Two packets recorded with no filter: 192.168.1.5 -> 10.0.0.7 of 1500
\* bytes and one of 1 byte between 8.8.8.8 and 192.168.1.5.
C11_Witness ==
    /\ cap_pc = "next_packet"
    /\ DOMAIN stats.traffic_delta = {local_ip, <<10, 0, 0, 7>>}
    /\ stats.traffic_delta[local_ip] = 1501
    /\ stats.traffic_delta[<<10, 0, 0, 7>>] = 1500

\* Octet i of the first (last = FALSE) or last (last = TRUE) address of the
\* network addr/prefix.
RangeOctet(addr, prefix, i, last) ==
    LET covered == prefix - 8 * (i - 1)
        block   == 2 ^ (8 - covered)
    IN  IF covered >= 8 THEN addr[i]
        ELSE IF covered <= 0 THEN (IF last THEN 255 ELSE 0)
        ELSE (addr[i] \div block) * block + (IF last THEN block - 1 ELSE 0)

\* a <= b for two addresses, octet by octet from the first.
AddrLE(a, b) ==
    \/ a = b
    \/ \E i \in 1..4 : a[i] < b[i] /\ \A j \in 1..(i - 1) : a[j] = b[j]

\* ip lies between the first and the last address of addr/prefix.
InNetwork(ip, addr, prefix) ==
    /\ AddrLE([i \in 1..4 |-> RangeOctet(addr, prefix, i, FALSE)], ip)
    /\ AddrLE(ip, [i \in 1..4 |-> RangeOctet(addr, prefix, i, TRUE)])

\* C12: should_track_ip returns filter.contains(address) when a filter is
\* configured, whatever the private ranges say, and otherwise returns true
\* exactly for the addresses of 10.0.0.0/8, 172.16.0.0/12 and
\* 192.168.0.0/16.
C12_Tracked ==
    cl_result # <<>> =>
        cl_result[1] =
            IF cl_filter.some
            THEN InNetwork(cl_ip, cl_filter.addr, cl_filter.prefix)
            ELSE \/ InNetwork(cl_ip, <<10, 0, 0, 0>>, 8)
                 \/ InNetwork(cl_ip, <<172, 16, 0, 0>>, 12)
                 \/ InNetwork(cl_ip, <<192, 168, 0, 0>>, 16)

\* A private address that the configured filter does not contain is not
\* tracked.
C12_Witness ==
    /\ cl_result = <<FALSE>>
    /\ cl_filter = Some(<<10, 0, 0, 0>>, 8)
    /\ cl_ip = <<192, 168, 1, 5>>

\* The rate r is bytes per tick interval: r = bytes * 1000 / TICK_RATE_MS.
IsRateOf(r, bytes) == r[1] * TICK_RATE_MS = bytes * 1000 * r[2]

\* C13: over the life of a tracker peak_rate never decreases, and after any
\* sequence of updates it is the greatest instantaneous rate (bytes of one
\* tick over the tick interval) among the updates received since creation.
C13_PeakIsMaximum ==
    [][/\ RatGE(tr_h'.peak_rate, tr_h.peak_rate)
       /\ \E i \in DOMAIN tr_inputs' :
              /\ IsRateOf(tr_h'.peak_rate, tr_inputs'[i])
              /\ \A j \in DOMAIN tr_inputs' : tr_inputs'[j] <= tr_inputs'[i]]_vars

\* The peak of 2000 B/s (1000 bytes in one tick) is kept after the sample
\* that set it has left the window and smaller ones have followed.
C13_Witness ==
    /\ Len(tr_inputs) >= 4
    /\ tr_inputs[1] = 300
    /\ tr_inputs[2] = 1000
    /\ \A i \in DOMAIN tr_h.samples : tr_h.samples[i] < 1000
    /\ tr_h.peak_rate = <<2000, 1>>

\* C14: an update changes peak_time if and only if it changes peak_rate, and
\* it changes peak_rate if and only if the tick's instantaneous rate is
\* strictly greater than the current peak_rate; a rate equal to the peak
\* leaves both as they were.
C14_PeakTimeFollowsPeak ==
    [][LET bytes == tr_inputs'[Len(tr_inputs')]
       IN  /\ (tr_h'.peak_time # tr_h.peak_time)
                  <=> (tr_h'.peak_rate # tr_h.peak_rate)
           /\ (tr_h'.peak_rate # tr_h.peak_rate)
                  <=> (bytes * 1000 * tr_h.peak_rate[2]
                           > tr_h.peak_rate[1] * TICK_RATE_MS)]_vars

\* Two updates of 1000 bytes: the second ties with the peak and the record
\* still carries the time of the first.
C14_Witness ==
    /\ tr_inputs = <<1000, 1000>>
    /\ tr_h.peak_rate = <<2000, 1>>
    /\ tr_h.peak_time = 1

\* C15: in a tick every endpoint that has a tracker or a delta receives
\* exactly one update, with its delta or with 0 if it has none: its queue is
\* the one before with that one sample pushed (and the oldest popped from a
\* full queue), so a retained tracker's queue grows by one sample per tick
\* up to MAX_SAMPLES.
C15_OneUpdatePerTick ==
    [][(tick_pc = "per_ip" /\ tick_pc' = "clear") =>
           /\ DOMAIN visited'
                  = (DOMAIN ip_histories) \cup (DOMAIN stats.traffic_delta)
           /\ \A ip \in DOMAIN visited' :
                  LET before == IF ip \in DOMAIN ip_histories
                                THEN ip_histories[ip].samples ELSE <<>>
                      pushed == Append(before,
                                       DeltaOf(stats.traffic_delta, ip))
                  IN  /\ visited'[ip].samples =
                             IF Len(before) < MAX_SAMPLES THEN pushed
                             ELSE Tail(pushed)
                      /\ ip \in DOMAIN ip_histories' =>
                             Len(ip_histories'[ip].samples)
                                 = Min(Len(before) + 1, MAX_SAMPLES)]_vars

\* A tick has updated a tracker that had no delta (a 0 joined a queue of at
\* least one sample) and an endpoint with a delta.
C15_Witness ==
    /\ tick_pc = "clear"
    /\ \E ip \in DOMAIN visited :
           /\ ip \notin DOMAIN used.traffic_delta
           /\ Len(visited[ip].samples) >= 2
           /\ visited[ip].samples[Len(visited[ip].samples)] = 0
    /\ \E ip \in DOMAIN visited :
           /\ ip \in DOMAIN used.traffic_delta
           /\ used.traffic_delta[ip] > 0
           /\ visited[ip].samples = <<used.traffic_delta[ip]>>

\* C16 as claimed: the capture thread is never waiting for the lock while
\* on_tick holds it.
C16_Claimed_ProducerNeverBlocks ==
    ~(cap_pc = "lock" /\ mutex = "tick")

\* history' is history moved one place to the left, its first element
\* dropped, with delta as the last element.
ShiftedLeft(before, after, delta) ==
    /\ Len(after) = MAX_SAMPLES
    /\ Len(after) = Len(before)
    /\ \A i \in 1..(Len(after) - 1) : after[i] = before[i + 1]
    /\ after[Len(after)] = delta

\* C18: on every tick both trend buffers keep the length MAX_SAMPLES and are
\* shifted left by one: the oldest element is dropped and the last becomes
\* the rx (resp. tx) delta the tick drained.
C18_TrendShifted ==
    [][/\ Len(rx_history') = MAX_SAMPLES
       /\ Len(tx_history') = MAX_SAMPLES
       /\ (tick_pc = "global" /\ tick_pc' = "per_ip") =>
              /\ ShiftedLeft(rx_history, rx_history', at_lock.rx_delta)
              /\ ShiftedLeft(tx_history, tx_history', at_lock.tx_delta)]_vars

\* A tick that drained 1500 rx bytes and then one that drained 1 tx byte
\* fill the last two places of the buffers.
C18_Witness ==
    /\ tick_pc = "per_ip"
    /\ rx_history[MAX_SAMPLES - 1] = 1500
    /\ rx_history[MAX_SAMPLES] = 0
    /\ tx_history[MAX_SAMPLES - 1] = 0
    /\ tx_history[MAX_SAMPLES] = 1

\* The rate r is the greatest bytes-per-tick-interval rate of the deltas
\* ds, and 0 for no tick.
IsMaxRate(r, ds) ==
    IF ds = {} THEN r = Zero
    ELSE \E d \in ds : IsRateOf(r, d) /\ \A e \in ds : e <= d

\* The peak record changes only for a tick whose rate is strictly greater
\* than the recorded peak.
ReplacedOnlyByGreater(before, after, delta) ==
    after # before =>
        delta * 1000 * before[1][2] > before[1][1] * TICK_RATE_MS

\* C19: after any sequence of ticks the global rx (resp. tx) peak rate is
\* the greatest instantaneous rx (resp. tx) rate of any tick so far, and the
\* peak record, rate and timestamp, is replaced only in a tick whose rate is
\* strictly greater than the recorded peak.
C19_GlobalPeaks ==
    [][/\ IsMaxRate(peak_rx_record'[1],
                    {drained'[i].rx : i \in DOMAIN drained'})
       /\ IsMaxRate(peak_tx_record'[1],
                    {drained'[i].tx : i \in DOMAIN drained'})
       /\ ReplacedOnlyByGreater(peak_rx_record, peak_rx_record',
                                stats.rx_delta)
       /\ ReplacedOnlyByGreater(peak_tx_record, peak_tx_record',
                                stats.tx_delta)]_vars

\* The rx peak of 3000 B/s was set by the first tick; a later tick with a
\* smaller, nonzero rx rate has left the record as it was.
C19_Witness ==
    /\ Len(drained) >= 2
    /\ drained[1].rx = 1500
    /\ drained[2].rx = 1
    /\ peak_rx_record[1] = <<3000, 1>>
    /\ peak_rx_record[2] < 3

\* C17: once the capture thread has died holding the lock, the next on_tick
\* panics: from then on no tracker, total, trend buffer, peak record or
\* snapshot changes, the accumulator is not read or reset, and the tick
\* thread takes no step but the one that ends it.
C17_PoisonIsFatal ==
    [][/\ mutex = "poisoned" =>
              /\ appVars' = appVars
              /\ stats' = stats
              /\ mutex' = "poisoned"
              /\ tick_pc' # tick_pc => tick_pc' = "panicked"
       /\ tick_pc = "panicked" => tick_pc' = "panicked"]_vars

\* After one completed tick the capture thread died between its counter and
\* its per-endpoint deltas, and the next on_tick has panicked.
C17_Witness ==
    /\ tick_pc = "panicked"
    /\ cap_pc = "panicked"
    /\ n_ticks >= 1
    /\ total_rx_bytes + total_tx_bytes > 0
    /\ stats.rx_delta + stats.tx_delta > 0
    /\ stats.traffic_delta = EmptyMap
    /\ should_track_ip(packet.src, filter_cidr)

\* C20: over any sequence of ticks, an endpoint evicted and observed again
\* included, at most one lookup thread is ever spawned per address.
C20_OneLookupPerEndpoint ==
    \A i \in DOMAIN issued : \A j \in DOMAIN issued :
        issued[i] = issued[j] => i = j

\* An endpoint that was evicted when its window had decayed is tracked
\* again, with the one lookup of its first observation.
C20_Witness ==
    \E ip \in evicted :
        /\ ip \in DOMAIN ip_stats
        /\ n_ticks = MaxMainTicks
        /\ \E i \in DOMAIN issued : issued[i] = ip

\* C21: whenever the ArpSpoofer has been stopped or dropped, every child
\* that start spawned has been killed and waited on.
C21_Claimed_NoChildLeft ==
    last_op \in {"stop", "drop"} =>
        \A i \in DOMAIN children : children[i].killed /\ children[i].waited

\* The lookup thread spawned for ip has ended.
LookupEnded(ip) ==
    (\E i \in DOMAIN issued : issued[i] = ip) /\ ip \notin lookups

C22_CacheHoldsOutcome ==
    /\ \A ip \in MainAddrs :
           LookupEnded(ip) <=> ip \in DOMAIN dns_cache
    /\ \A ip \in DOMAIN dns_cache :
           /\ ip \in DOMAIN resolved
           /\ resolved[ip].ok => dns_cache[ip] = resolved[ip].value
           /\ ~resolved[ip].ok => dns_cache[ip] = to_string(ip)

C22_SnapshotShowsCache ==
    (tick_pc = "snapshot" /\ tick_pc' = "idle") =>
        \A i \in DOMAIN main_top_talkers' :
            main_top_talkers'[i].hostname =
                IF main_top_talkers'[i].ip \in DOMAIN dns_cache
                THEN dns_cache[main_top_talkers'[i].ip]
                ELSE "Resolving..."

\* C22: a lookup thread that has ended has left one cache entry for its
\* address, the resolved name when lookup_addr succeeded and the text of the
\* address when it failed; a snapshot entry whose address has no cache entry
\* carries the text that says resolution is pending, the others carry the
\* cache entry.
C22_LookupFallback ==
    [](C22_CacheHoldsOutcome) /\ [][C22_SnapshotShowsCache]_vars

\* A snapshot with one endpoint shown as pending and one shown by the text
\* of its address, after a failed lookup.
C22_Witness ==
    /\ \E i \in DOMAIN main_top_talkers :
           main_top_talkers[i].hostname = "Resolving..."
    /\ \E i \in DOMAIN main_top_talkers :
           /\ main_top_talkers[i].hostname = to_string(main_top_talkers[i].ip)
           /\ ~resolved[main_top_talkers[i].ip].ok

\* C23: an endpoint that was evicted and is observed again is updated from
\* a fresh tracker: after this first update its queue holds the tick's bytes
\* alone, its sum is those bytes and its peak is their rate.
C23_FreshAfterEviction ==
    tick_pc \in {"clear", "return"} =>
        \A ip \in dropped_ips \cap DOMAIN visited :
            LET bytes_in == IF ip \in DOMAIN used.traffic_delta
                            THEN used.traffic_delta[ip] ELSE 0
            IN  /\ ip \in DOMAIN used.traffic_delta
                /\ visited[ip].samples = <<bytes_in>>
                /\ visited[ip].total_sum = bytes_in
                /\ visited[ip].peak_rate = instant_rate(bytes_in)

\* An endpoint evicted in an earlier tick is tracked again, with traffic.
C23_Witness ==
    /\ tick_pc = "clear"
    /\ \E ip \in dropped_ips \cap DOMAIN visited :
           /\ ip \in DOMAIN ip_histories
           /\ visited[ip].total_sum > 0

\* Every counter of the accumulator `after` is at least what it is in
\* `before`, and every key of `before` is a key of `after`.
NotDecreased(before, after) ==
    /\ after.rx_delta >= before.rx_delta
    /\ after.tx_delta >= before.tx_delta
    /\ DOMAIN before.traffic_delta \subseteq DOMAIN after.traffic_delta
    /\ \A ip \in DOMAIN before.traffic_delta :
           after.traffic_delta[ip] >= before.traffic_delta[ip]

\* C24: between two drains rx_delta, tx_delta and every per-endpoint delta
\* never decrease and no key leaves traffic_delta; the one step that resets
\* them is the clear of on_tick.
C24_MonotoneBetweenDrains ==
    [][\/ NotDecreased(stats, stats')
       \/ tick_pc = "clear" /\ stats' = EmptyStats]_vars

\* After a drain, one endpoint's delta has grown twice.
C24_Witness ==
    /\ n_ticks >= 1
    /\ \E ip \in DOMAIN stats.traffic_delta : stats.traffic_delta[ip] > 1500

\* A rate that is a number: a fraction with a positive denominator.
IsNumber(rate) == rate[2] > 0

\* C25: every average that update computes is a number, the queue being
\* non-empty when the sum is divided, so the comparisons of the sort of
\* on_tick are all defined.
C25_SortWellOrdered ==
    /\ \A i \in DOMAIN top_talkers : IsNumber(top_talkers[i].avg)
    /\ \A ip \in DOMAIN visited : Len(visited[ip].samples) >= 1
    /\ \A ip \in DOMAIN ip_histories : Len(ip_histories[ip].samples) >= 1

\* A snapshot of two endpoints, which the sort had to compare.
C25_Witness ==
    /\ tick_pc = "clear"
    /\ Len(top_talkers) >= 2
    /\ top_talkers[1].avg # top_talkers[2].avg

\* The endpoints of the snapshot that on_tick publishes when the HashMaps
\* yield their keys in the order `order`.
PublishedIps(order) ==
    LET s == sort_by(VisitAll(order, stats.traffic_delta, ip_histories,
                              <<>>, EmptyMap, clock).snap)
    IN  [i \in DOMAIN s |-> s[i].ip]

\* C26: the order of the snapshot is determined by the packets and ticks
\* fed: whatever order the maps yield their keys in, on_tick publishes the
\* same sequence of endpoints.
C26_Claimed_DeterministicOrder ==
    tick_pc = "per_ip" =>
        \A k1 \in Orders(DOMAIN ip_histories) :
        \A k2 \in Orders(DOMAIN ip_histories) :
        \A f1 \in Orders(FreshKeys(stats.traffic_delta, ip_histories)) :
        \A f2 \in Orders(FreshKeys(stats.traffic_delta, ip_histories)) :
            PublishedIps(k1 \o f1) = PublishedIps(k2 \o f2)

\* C27: the endpoints of top_talkers are exactly the keys of ip_histories,
\* each once, and every entry carries the average, the peak rate and the peak
\* time of that endpoint's tracker as the tick's update left it.
C27_SnapshotMatchesTrackers ==
    /\ {top_talkers[i].ip : i \in DOMAIN top_talkers} = DOMAIN ip_histories
    /\ Len(top_talkers) = Cardinality(DOMAIN ip_histories)
    /\ \A i \in DOMAIN top_talkers :
           LET e == top_talkers[i]
               h == ip_histories[e.ip]
           IN  /\ e.avg = average_rate(h.total_sum, Len(h.samples))
               /\ e.peak_rate = h.peak_rate
               /\ e.peak_time = h.peak_time

\* The second snapshot of a run, with two endpoints, one of them new.
C27_Witness ==
    /\ tick_pc = "clear"
    /\ n_ticks >= 2
    /\ Len(top_talkers) = 2
    /\ \E i \in DOMAIN top_talkers :
           Len(ip_histories[top_talkers[i].ip].samples) = 1
    /\ \E i \in DOMAIN top_talkers :
           Len(ip_histories[top_talkers[i].ip].samples) = 2

\* C28: in every entry of every published snapshot the average rate is at
\* most the peak rate.
C28_AverageAtMostPeak ==
    \A i \in DOMAIN top_talkers :
        RatGE(top_talkers[i].peak_rate, top_talkers[i].avg)

\* A snapshot with an entry whose average has fallen below its peak and an
\* entry whose average is its peak.
C28_Witness ==
    /\ tick_pc = "clear"
    /\ \E i \in DOMAIN top_talkers :
           /\ RatGT(top_talkers[i].avg, Zero)
           /\ RatGT(top_talkers[i].peak_rate, top_talkers[i].avg)
    /\ \E i \in DOMAIN top_talkers :
           /\ RatGT(top_talkers[i].avg, Zero)
           /\ top_talkers[i].peak_rate = top_talkers[i].avg

\* ip is an address to track under the configured filter: inside the filter
\* network when there is one, inside a private range otherwise.
ToBeTracked(ip) ==
    IF filter_cidr.some
    THEN InNetwork(ip, filter_cidr.addr, filter_cidr.prefix)
    ELSE \/ InNetwork(ip, <<10, 0, 0, 0>>, 8)
         \/ InNetwork(ip, <<172, 16, 0, 0>>, 12)
         \/ InNetwork(ip, <<192, 168, 0, 0>>, 16)

NoUntrackedAddress ==
    \A ip \in (DOMAIN stats.traffic_delta) \cup (DOMAIN ip_histories)
                  \cup {top_talkers[i].ip : i \in DOMAIN top_talkers} :
        ToBeTracked(ip)

CreatedFromDelta ==
    \A ip \in (DOMAIN ip_histories') \ (DOMAIN ip_histories) :
        ip \in DOMAIN stats.traffic_delta

\* C29: an address that should_track_ip rejects is never a key of
\* traffic_delta, never a key of ip_histories and never in a snapshot,
\* whatever packets are captured; a tracker is created only for a key of the
\* tick's traffic_delta.
C29_OnlyTrackedAddresses ==
    [](NoUntrackedAddress) /\ [][CreatedFromDelta]_vars

\* The capture thread has passed the source of a packet from an address that
\* is not to be tracked, while another endpoint is tracked and published.
C29_Witness ==
    /\ cap_pc = "dst"
    /\ ~ToBeTracked(packet.src)
    /\ packet.len > 0
    /\ ip_histories # EmptyMap
    /\ top_talkers # <<>>

====
